---- MODULE Spec2Model ----
(***************************************************************************)
(* pysec: a recursive-descent parser-combinator engine.                    *)
(*                                                                         *)
(* A grammar is a tree of parser nodes (records tagged by `type`).  The    *)
(* evaluation function _parse(query, start) of every node is the operator  *)
(* Parse; the construction operators (+, |, -, ~, [], >>, /) and the       *)
(* derived combinators (Nth, Joined, Optional, In) build trees exactly as  *)
(* the Python code does.                                                   *)
(*                                                                         *)
(* Python strings are sequences of one-character strings.  Python values   *)
(* are tagged: PyStr, PyList, PyNone.  The outcome of a call is a record   *)
(* tagged "ok" (a return), "ParseException", "TypeError", "IndexError"     *)
(* (an exception raised) or "diverges" (the call never returns).           *)
(***************************************************************************)
EXTENDS Integers, Sequences, FiniteSets, TLC

VARIABLES
    op,      \* the operation applied: "none" before any
    self,    \* the parser the operation was applied to
    query,   \* the input string
    start,   \* the cursor the evaluation started from
    res,     \* the outcome of the operation
    aux,     \* the operands the parser was built from
    pc,      \* Repeat._parse, statement by statement: the position
    s,       \* Repeat._parse: local s
    rs,      \* Repeat._parse: local rs
    r,       \* Repeat._parse: local r
    i        \* Repeat._parse: local i of the for loops

vars == <<op, self, query, start, res, aux, pc, s, rs, r, i>>

---------------------------------------------------------------------------
(* Bounds of the model *)

\* longest input string
MaxLen == 3
\* largest repetition bound given to Repeat
MaxRep == 2
\* most tokens in a joined list
MaxTokens == 3

---------------------------------------------------------------------------
(* Python values and call outcomes *)

PyNone == [t |-> "none"]
PyStr(x) == [t |-> "str", chars |-> x]
PyList(x) == [t |-> "list", items |-> x]

Success(v, c) == [tag |-> "ok", val |-> v, pos |-> c]
Raise(m) == [tag |-> "ParseException", msg |-> m]
TypeError == [tag |-> "TypeError"]
IndexError == [tag |-> "IndexError"]
Diverges == [tag |-> "diverges"]

---------------------------------------------------------------------------
(* Parser nodes *)

\* a raw Python str given as an operand of a combinator
RawStr(x) == [type |-> "str", lit |-> x]

Literal(lit) == [type |-> "Literal", lit |-> lit]

\* Regex patterns modelled: a greedy run of a character class, [cls]* when
\* lo = 0 and [cls]+ when lo = 1, wrapped in one capture group when
\* groups = 1.
Regex(cls, lo, groups) == [type |-> "Regex", cls |-> cls, lo |-> lo, groups |-> groups]

Id(parser) ==
    [type |-> "Id", p |-> IF parser.type = "str" THEN Literal(parser.lit) ELSE parser]

Map(p, fn) == [type |-> "Map", p |-> p, fn |-> fn]

Drop(parser) ==
    [type |-> "Drop", p |-> IF parser.type = "str" THEN Literal(parser.lit) ELSE parser]

\* stop = None is unbounded = TRUE (stop is then 0 and unused)
Repeat(parser, from, stop, unbounded) ==
    [type |-> "Repeat", p |-> parser, start |-> from, stop |-> stop,
     unbounded |-> unbounded]

Concat(ps) == [type |-> "Concat", ps |-> ps]

Union(ps) == [type |-> "Union", ps |-> ps]

---------------------------------------------------------------------------
(* Construction operators of _Parser *)

\* __add__ had it nested its operands instead of merging their lists
AddNoFlatten(this, p) ==
    Concat(<<this>> \o (IF p.type = "str" THEN <<Drop(p)>> ELSE <<p>>))

\* _Parser.__add__: this + p
Add(this, p) ==
    LET ps1 == IF this.type = "Concat" THEN this.ps ELSE <<this>>
        ps2 == IF p.type = "str" THEN <<Drop(p)>>
               ELSE IF p.type = "Concat" THEN p.ps ELSE <<p>>
    IN  Concat(ps1 \o ps2)

\* _Parser.__radd__: p + this, p not a parser
RAdd(this, p) ==
    LET ps1 == IF p.type = "str" THEN <<Drop(p)>>
               ELSE IF p.type = "Concat" THEN p.ps ELSE <<p>>
        ps2 == IF this.type = "Concat" THEN this.ps ELSE <<this>>
    IN  Concat(ps1 \o ps2)

\* _Parser.__or__: this | p
Or(this, p) ==
    LET ps1 == IF this.type = "Union" THEN this.ps ELSE <<this>>
        ps2 == IF p.type = "str" THEN <<Literal(p.lit)>>
               ELSE IF p.type = "Union" THEN p.ps ELSE <<p>>
    IN  Union(ps1 \o ps2)

\* _Parser.__ror__: p | this, p not a parser
ROr(this, p) ==
    LET ps1 == IF p.type = "str" THEN <<Literal(p.lit)>>
               ELSE IF p.type = "Union" THEN p.ps ELSE <<p>>
        ps2 == IF this.type = "Union" THEN this.ps ELSE <<this>>
    IN  Union(ps1 \o ps2)

\* the expression x + y: a str on the left has no __add__ for a parser, so
\* Python calls the right operand's __radd__
Plus(x, y) == IF x.type = "str" THEN RAdd(y, x) ELSE Add(x, y)

\* the expression x | y
Bar(x, y) == IF x.type = "str" THEN ROr(y, x) ELSE Or(x, y)

\* _Parser.__neg__: -this
Neg(this) == Id(this)

\* _Parser.__getitem__ with a slice lo:hi; Repeat.__init__ takes start or 0
GetSlice(this, lo, hi) == Repeat(this, lo, hi, FALSE)

\* _Parser.__getitem__ with the slice [:], start and stop both None
GetAll(this) == Repeat(this, 0, 0, TRUE)

\* the function Nth hands to Map
NthFn(k) == [fn |-> "Nth", i |-> k]

\* the function Joined hands to Map
JoinedFn == [fn |-> "Joined"]

Nth(pToken, k) == Map(pToken, NthFn(k))

Joined(pToken, pSeparator) ==
    Map(Plus(Neg(pToken), GetAll(Nth(Plus(Drop(pSeparator), Neg(pToken)), 0))),
        JoinedFn)

Optional(pToken) == Nth(GetSlice(pToken, 0, 1), 0)

In(lsep, ptoken, rsep) == Nth(Plus(Plus(lsep, ptoken), rsep), 0)

---------------------------------------------------------------------------
(* __str__ and the failure messages *)

\* whether str(p) returns a string.  Concat.__str__ and Union.__str__ join
\* parser objects as if they were strings (and return nothing), so str() of
\* either raises TypeError; Repeat.__str__ formats stop with %d, which raises
\* TypeError when stop is None and start > 1.
RECURSIVE StrOk(_)
StrOk(p) ==
    CASE p.type = "Literal" -> TRUE
      [] p.type = "Regex" -> TRUE
      [] p.type \in {"Id", "Map", "Drop"} -> StrOk(p.p)
      [] p.type = "Repeat" ->
            IF p.unbounded /\ p.start > 1 THEN FALSE ELSE StrOk(p.p)
      [] p.type \in {"Concat", "Union"} -> FALSE

\* the node whose text str(p) is built from: Id, Map and Drop return the
\* text of their child
RECURSIVE Describe(_)
Describe(p) ==
    IF p.type \in {"Id", "Map", "Drop"} THEN Describe(p.p) ELSE p

\* ParseException.from_state(parser, query, start): formatting the message
\* calls str(parser)
from_state(parser, qy, c) ==
    IF StrOk(parser)
    THEN Raise([kind |-> "Expected", parser |-> Describe(parser),
                query |-> qy, index |-> c])
    ELSE TypeError

\* the exception Repeat._parse raises in its minimum phase
AtLeast(this) ==
    IF StrOk(this.p)
    THEN Raise([kind |-> "AtLeast", n |-> this.start, parser |-> Describe(this.p)])
    ELSE TypeError

---------------------------------------------------------------------------
(* Terminals *)

\* query.startswith(lit, c)
StartsWith(qy, lit, c) ==
    /\ c + Len(lit) <= Len(qy)
    /\ SubSeq(qy, c + 1, c + Len(lit)) = lit

\* the length of the longest run of characters of cls in qy from offset c
RECURSIVE RunLen(_, _, _)
RunLen(qy, c, cls) ==
    IF c < Len(qy) /\ qy[c + 1] \in cls THEN 1 + RunLen(qy, c + 1, cls) ELSE 0

LiteralParse(this, qy, c) ==
    IF StartsWith(qy, this.lit, c)
    THEN Success(PyStr(this.lit), c + Len(this.lit))
    ELSE from_state(this, qy, c)

RegexParse(this, qy, c) ==
    LET n == RunLen(qy, c, this.cls)
        m == SubSeq(qy, c + 1, c + n)
    IN  IF n < this.lo THEN from_state(this, qy, c)
        ELSE IF this.groups = 0 THEN Success(PyStr(m), c + n)
        ELSE Success(PyList(<<PyStr(m)>>), c + n)

---------------------------------------------------------------------------
(* The functions handed to Map *)

\* the entries of a list, the characters of a str
Items(v) ==
    IF v.t = "list" THEN v.items
    ELSE [k \in 1..Len(v.chars) |-> PyStr(<<v.chars[k]>>)]

\* fn(v): the value returned, or the exception raised
Call(fn, v) ==
    CASE fn.fn = "Nth" ->
            \* lambda res: res[i] if i < len(res) else None
            IF v.t = "none" THEN TypeError
            ELSE IF fn.i < Len(Items(v))
                 THEN [tag |-> "ok", val |-> Items(v)[fn.i + 1]]
                 ELSE [tag |-> "ok", val |-> PyNone]
      [] fn.fn = "Joined" ->
            \* lambda rs: [rs[0], *rs[1]]
            IF v.t = "none" THEN TypeError
            ELSE IF Len(Items(v)) < 2 THEN IndexError
            ELSE IF Items(v)[2].t = "none" THEN TypeError
            ELSE [tag |-> "ok",
                  val |-> PyList(<<Items(v)[1]>> \o Items(Items(v)[2]))]

---------------------------------------------------------------------------
(* _parse *)

RECURSIVE Parse(_, _, _)
RECURSIVE ConcatFrom(_, _, _, _, _)
RECURSIVE UnionFrom(_, _, _, _)
RECURSIVE RepeatMin(_, _, _, _, _)
RECURSIVE RepeatFor(_, _, _, _, _)
RECURSIVE RepeatWhile(_, _, _, _)

\* Concat._parse had it appended every value, None included
RECURSIVE ConcatKeepNone(_, _, _, _, _)
ConcatKeepNone(this, k, qy, c, acc) ==
    IF k > Len(this.ps) THEN Success(PyList(acc), c)
    ELSE LET o == Parse(this.ps[k], qy, c)
         IN  IF o.tag # "ok" THEN o
             ELSE ConcatKeepNone(this, k + 1, qy, o.pos, Append(acc, o.val))

\* Concat._parse from its k-th child on, with s = c and rs = acc
ConcatFrom(this, k, qy, c, acc) ==
    IF k > Len(this.ps) THEN Success(PyList(acc), c)
    ELSE LET o == Parse(this.ps[k], qy, c)
         IN  IF o.tag # "ok" THEN o
             ELSE ConcatFrom(this, k + 1, qy, o.pos,
                             IF o.val.t # "none" THEN Append(acc, o.val) ELSE acc)

\* Union._parse from its k-th alternative on
UnionFrom(this, k, qy, c) ==
    IF k > Len(this.ps) THEN from_state(this, qy, c)
    ELSE LET o == Parse(this.ps[k], qy, c)
         IN  IF o.tag = "ParseException" THEN UnionFrom(this, k + 1, qy, c)
             ELSE o

\* Repeat._parse, the while True loop, with s = c and rs = acc.  The child is
\* a function of (query, s) alone: once it returns without moving s, the same
\* call is made again for ever.
RepeatWhile(this, qy, c, acc) ==
    LET o == Parse(this.p, qy, c)
    IN  IF o.tag = "ParseException" THEN Success(PyList(acc), c)
        ELSE IF o.tag # "ok" THEN o
        ELSE IF o.pos = c THEN Diverges
        ELSE RepeatWhile(this, qy, o.pos, Append(acc, o.val))

\* the for loop had it run over range(0, stop - start + 1)
RECURSIVE RepeatForOneMore(_, _, _, _, _)
RepeatForOneMore(this, k, qy, c, acc) ==
    IF k > this.stop - this.start THEN Success(PyList(acc), c)
    ELSE LET o == Parse(this.p, qy, c)
         IN  IF o.tag = "ParseException" THEN Success(PyList(acc), c)
             ELSE IF o.tag # "ok" THEN o
             ELSE RepeatForOneMore(this, k + 1, qy, o.pos, Append(acc, o.val))

\* Repeat._parse, the loop for i in range(0, stop - start), from i = k
RepeatFor(this, k, qy, c, acc) ==
    IF k >= this.stop - this.start THEN Success(PyList(acc), c)
    ELSE LET o == Parse(this.p, qy, c)
         IN  IF o.tag = "ParseException" THEN Success(PyList(acc), c)
             ELSE IF o.tag # "ok" THEN o
             ELSE RepeatFor(this, k + 1, qy, o.pos, Append(acc, o.val))

\* Repeat._parse, the loop for i in range(0, start), from i = k, and then
\* the rest of the method
RepeatMin(this, k, qy, c, acc) ==
    IF k >= this.start
    THEN IF this.unbounded THEN RepeatWhile(this, qy, c, acc)
         ELSE RepeatFor(this, 0, qy, c, acc)
    ELSE LET o == Parse(this.p, qy, c)
         IN  IF o.tag = "ParseException" THEN AtLeast(this)
             ELSE IF o.tag # "ok" THEN o
             ELSE RepeatMin(this, k + 1, qy, o.pos, Append(acc, o.val))

IdParse(this, qy, c) == Parse(this.p, qy, c)

MapParse(this, qy, c) ==
    LET o == Parse(this.p, qy, c)
    IN  IF o.tag # "ok" THEN o
        ELSE LET f == Call(this.fn, o.val)
             IN  IF f.tag = "ok" THEN Success(f.val, o.pos) ELSE f

DropParse(this, qy, c) ==
    LET o == Parse(this.p, qy, c)
    IN  IF o.tag # "ok" THEN o ELSE Success(PyNone, o.pos)

RepeatParse(this, qy, c) == RepeatMin(this, 0, qy, c, <<>>)

ConcatParse(this, qy, c) == ConcatFrom(this, 1, qy, c, <<>>)

UnionParse(this, qy, c) == UnionFrom(this, 1, qy, c)

\* p._parse(qy, c)
Parse(p, qy, c) ==
    CASE p.type = "Literal" -> LiteralParse(p, qy, c)
      [] p.type = "Regex" -> RegexParse(p, qy, c)
      [] p.type = "Id" -> IdParse(p, qy, c)
      [] p.type = "Map" -> MapParse(p, qy, c)
      [] p.type = "Drop" -> DropParse(p, qy, c)
      [] p.type = "Repeat" -> RepeatParse(p, qy, c)
      [] p.type = "Concat" -> ConcatParse(p, qy, c)
      [] p.type = "Union" -> UnionParse(p, qy, c)

\* parse had it returned the value without comparing s with len(query)
parseUnchecked(this, qy) ==
    LET o == Parse(this, qy, 0)
    IN  IF o.tag # "ok" THEN o ELSE [tag |-> "ok", val |-> o.val]

\* _Parser.parse(query): the value returned, or the exception raised
parse(this, qy) ==
    LET o == Parse(this, qy, 0)
    IN  IF o.tag # "ok" THEN o
        ELSE IF o.pos # Len(qy)
             THEN Raise([kind |-> "Remaining",
                         rest |-> SubSeq(qy, o.pos + 1, Len(qy))])
             ELSE [tag |-> "ok", val |-> o.val]

---------------------------------------------------------------------------
(* The inputs the operations are applied to *)

Chars == {"a", "b"}

\* the strings over cs of length at most n
StringsOver(cs, n) == UNION {[1..k -> cs] : k \in 0..n}

Inputs == StringsOver(Chars, MaxLen)

\* an input and a cursor into it
Cursors(qy) == 0..Len(qy)

Terminals ==
    {Literal(<<>>), Literal(<<"a">>), Literal(<<"b">>), Literal(<<"a", "b">>),
     Regex({"a", "b"}, 0, 0), Regex({"a"}, 1, 1)}

\* parsers of every kind, the children the combinators are built over
Parsers ==
    Terminals \cup
    {Drop(RawStr(<<"a">>)),
     Id(RawStr(<<"a">>)),
     Concat(<<Literal(<<"a">>), Literal(<<"b">>)>>),
     Concat(<<Drop(RawStr(<<"a">>)), Literal(<<"b">>)>>),
     Union(<<Literal(<<"a">>), Literal(<<"a", "b">>)>>),
     Id(Union(<<Literal(<<"b">>), Literal(<<"a", "b">>)>>)),
     Repeat(Literal(<<"a">>), 1, 2, FALSE),
     Repeat(Concat(<<Literal(<<"a">>), Literal(<<"b">>)>>), 1, 1, FALSE),
     Repeat(Literal(<<"b">>), 0, 0, TRUE),
     Optional(Literal(<<"a">>)),
     Optional(Drop(RawStr(<<"b">>)))}

\* the lists of one or two parsers
ParserLists == {<<x>> : x \in Parsers} \cup {<<x, y>> : x \in Parsers, y \in Parsers}

\* the operands of the construction operators
Operands ==
    {Literal(<<"a">>), Literal(<<"b">>), Literal(<<"a", "b">>),
     Drop(RawStr(<<"a">>)),
     Id(Concat(<<Literal(<<"a">>), Literal(<<"b">>)>>)),
     Concat(<<Literal(<<"a">>), Literal(<<"b">>)>>),
     Union(<<Literal(<<"a">>), Literal(<<"b">>)>>),
     Optional(Literal(<<"a">>))}

\* the tokens and separators Joined is built from
Tokens ==
    {Literal(<<"a">>), Literal(<<"a", "b">>), Regex({"a"}, 1, 1),
     Regex({"a", "b"}, 1, 0),
     Concat(<<Literal(<<"a">>), Literal(<<"b">>)>>),
     Union(<<Literal(<<"a">>), Literal(<<"b">>)>>)}

Separators ==
    {RawStr(<<",">>), Literal(<<",">>),
     Union(<<Literal(<<",">>), Literal(<<";">>)>>)}

\* a parser operand as the parser Drop and Id make of it
AsParser(x) == IF x.type = "str" THEN Literal(x.lit) ELSE x

\* the strings over cs, of length at most n, that p matches from end to end
Matched(p, cs, n) ==
    {w \in StringsOver(cs, n) :
        Parse(AsParser(p), w, 0).tag = "ok" /\ Parse(AsParser(p), w, 0).pos = Len(w)}

\* the lists of one to n members of ws
ListsOf(ws, n) == UNION {[1..k -> ws] : k \in 1..n}

\* sep.join(ws)
RECURSIVE Join(_, _)
Join(ws, sep) ==
    IF Len(ws) = 0 THEN <<>>
    ELSE IF Len(ws) = 1 THEN ws[1]
    ELSE ws[1] \o sep \o Join(Tail(ws), sep)

\* the left and right delimiters In is given
Lefts == {RawStr(<<"a">>), Literal(<<"a">>)}
Rights == {RawStr(<<"b">>), Literal(<<"b">>)}

---------------------------------------------------------------------------
(* The operations *)

Idle == [tag |-> "idle"]

RunIdle ==
    /\ pc = "idle" /\ s = 0 /\ rs = <<>> /\ r = PyNone /\ i = 0

Init ==
    /\ op = "none" /\ self = PyNone /\ query = <<>> /\ start = 0
    /\ res = Idle /\ aux = PyNone
    /\ RunIdle

\* the variables of the statement-level run of Repeat._parse
runvars == <<pc, s, rs, r, i>>

\* p.parse(qy)
ApplyParse ==
    /\ op = "none"
    /\ \E p \in Parsers, qy \in Inputs :
        /\ op' = "parse" /\ self' = p /\ query' = qy /\ start' = 0
        /\ res' = parse(p, qy)
        /\ aux' = PyNone
    /\ UNCHANGED runvars

\* Repeat(p, m, n)._parse(qy, c) and Repeat(p, m, None)._parse(qy, c)
ApplyRepeat ==
    /\ op = "none"
    /\ \E p \in Parsers, m \in 0..MaxRep, n \in 0..MaxRep, u \in BOOLEAN,
          qy \in Inputs :
        \E c \in Cursors(qy) :
            /\ IF u THEN n = 0 ELSE m <= n
            /\ op' = "Repeat" /\ self' = Repeat(p, m, n, u)
            /\ query' = qy /\ start' = c
            /\ res' = Parse(Repeat(p, m, n, u), qy, c)
            /\ aux' = PyNone
    /\ UNCHANGED runvars

\* Union(ps)._parse(qy, c)
ApplyUnion ==
    /\ op = "none"
    /\ \E ps \in ParserLists, qy \in Inputs :
        \E c \in Cursors(qy) :
            /\ op' = "Union" /\ self' = Union(ps) /\ query' = qy /\ start' = c
            /\ res' = Parse(Union(ps), qy, c)
            /\ aux' = PyNone
    /\ UNCHANGED runvars

\* Concat(ps)._parse(qy, c)
ApplyConcat ==
    /\ op = "none"
    /\ \E ps \in ParserLists, qy \in Inputs :
        \E c \in Cursors(qy) :
            /\ op' = "Concat" /\ self' = Concat(ps) /\ query' = qy /\ start' = c
            /\ res' = Parse(Concat(ps), qy, c)
            /\ aux' = PyNone
    /\ UNCHANGED runvars

\* Optional(p)._parse(qy, c)
ApplyOptional ==
    /\ op = "none"
    /\ \E p \in Parsers, qy \in Inputs :
        \E c \in Cursors(qy) :
            /\ op' = "Optional" /\ self' = Optional(p) /\ query' = qy /\ start' = c
            /\ res' = Parse(Optional(p), qy, c)
            /\ aux' = [p |-> p]
    /\ UNCHANGED runvars

\* Joined(token, sep)._parse(qy, 0), qy the words joined with the text st
\* of the separator, after a separator when junk, before one more when tail
ApplyJoined ==
    /\ op = "none"
    /\ \E token \in Tokens, sep \in Separators, junk \in BOOLEAN, tail \in BOOLEAN :
        \E ws \in ListsOf(Matched(token, Chars, 2), MaxTokens),
           st \in Matched(sep, {",", ";"}, 1) \ {<<>>} :
            LET qy == (IF junk THEN st ELSE <<>>) \o Join(ws, st)
                         \o (IF tail THEN st ELSE <<>>)
            IN  /\ op' = "Joined" /\ self' = Joined(token, sep)
                /\ query' = qy /\ start' = 0
                /\ res' = Parse(Joined(token, sep), qy, 0)
                /\ aux' = [token |-> token, sep |-> sep, words |-> ws, st |-> st,
                           junk |-> junk, tail |-> tail]
    /\ UNCHANGED runvars

\* ((a + b) + c)._parse(qy, 0)
ApplyAdd ==
    /\ op = "none"
    /\ \E a \in Operands, b \in Operands \cup {RawStr(<<"b">>)}, c \in Operands,
          qy \in Inputs :
        /\ op' = "Add" /\ self' = Plus(Plus(a, b), c) /\ query' = qy /\ start' = 0
        /\ res' = Parse(Plus(Plus(a, b), c), qy, 0)
        /\ aux' = [a |-> a, b |-> b, c |-> c]
    /\ UNCHANGED runvars

\* ((a | b) | c)._parse(qy, 0)
ApplyOr ==
    /\ op = "none"
    /\ \E a \in Operands, b \in Operands \cup {RawStr(<<"b">>)}, c \in Operands,
          qy \in Inputs :
        /\ op' = "Or" /\ self' = Bar(Bar(a, b), c) /\ query' = qy /\ start' = 0
        /\ res' = Parse(Bar(Bar(a, b), c), qy, 0)
        /\ aux' = [a |-> a, b |-> b, c |-> c]
    /\ UNCHANGED runvars

\* In(lsep, ptoken, rsep)._parse(qy, 0)
ApplyIn ==
    /\ op = "none"
    /\ \E lsep \in Lefts, ptoken \in Parsers, rsep \in Rights,
          qy \in StringsOver(Chars, MaxLen + 1) :
        /\ op' = "In" /\ self' = In(lsep, ptoken, rsep) /\ query' = qy /\ start' = 0
        /\ res' = Parse(In(lsep, ptoken, rsep), qy, 0)
        /\ aux' = [lsep |-> lsep, ptoken |-> ptoken, rsep |-> rsep]
    /\ UNCHANGED runvars

Next ==
    \/ ApplyParse
    \/ ApplyRepeat
    \/ ApplyUnion
    \/ ApplyConcat
    \/ ApplyOptional
    \/ ApplyJoined
    \/ ApplyAdd
    \/ ApplyOr
    \/ ApplyIn

Spec == Init /\ [][Next]_vars

---------------------------------------------------------------------------
(* Repeat._parse, statement by statement *)

\* The children of the Repeat that is run: each returns or raises on every
\* input.
RunChildren ==
    Terminals \cup
    {Drop(RawStr(<<"a">>)),
     Concat(<<Literal(<<"a">>), Literal(<<"b">>)>>),
     Union(<<Literal(<<"a">>), Literal(<<"a", "b">>)>>),
     Optional(Literal(<<"a">>)),
     Repeat(Literal(<<"b">>), 0, 1, FALSE)}

\* No run that returns appends more entries than this; a run that goes on
\* appending keeps this many.
RsCap == MaxRep + MaxLen

RunInit ==
    /\ op = "run"
    /\ \E p \in RunChildren, m \in 0..MaxRep, n \in 0..MaxRep, u \in BOOLEAN :
          /\ IF u THEN n = 0 ELSE m <= n
          /\ self = Repeat(p, m, n, u)
    /\ query \in Inputs
    /\ start \in 0..MaxLen
    /\ start <= Len(query)
    /\ res = Idle /\ aux = PyNone
    /\ pc = "enter" /\ s = 0 /\ rs = <<>> /\ r = PyNone /\ i = 0

\* where the method goes once the minimum is met: into the try block
AfterMin ==
    IF self.unbounded THEN "while_call"
    ELSE IF self.stop - self.start > 0 THEN "for_call" ELSE "return"

\* s = start; rs = []; if self._start > 0: for i in range(0, self._start):
Enter ==
    /\ pc = "enter"
    /\ s' = start /\ rs' = <<>> /\ i' = 0
    /\ pc' = IF self.start > 0 THEN "min_call" ELSE AfterMin
    /\ UNCHANGED <<op, self, query, start, res, aux, r>>

\* r, s = self._p._parse(query, s) in the minimum loop; a ParseException is
\* caught and the "Expected at least" exception raised in its place
MinCall ==
    /\ pc = "min_call"
    /\ LET o == Parse(self.p, query, s)
       IN  IF o.tag = "ok"
           THEN /\ r' = o.val /\ s' = o.pos /\ pc' = "min_append"
                /\ UNCHANGED res
           ELSE /\ res' = IF o.tag = "ParseException" THEN AtLeast(self) ELSE o
                /\ pc' = "done"
                /\ UNCHANGED <<r, s>>
    /\ UNCHANGED <<op, self, query, start, aux, rs, i>>

\* rs.append(r) in the minimum loop, and the loop's next i
MinAppend ==
    /\ pc = "min_append"
    /\ rs' = IF Len(rs) < RsCap THEN Append(rs, r) ELSE rs
    /\ i' = IF i + 1 < self.start THEN i + 1 ELSE 0
    /\ pc' = IF i + 1 < self.start THEN "min_call" ELSE AfterMin
    /\ UNCHANGED <<op, self, query, start, res, aux, s, r>>

\* r, s = self._p._parse(query, s) in for i in range(0, stop - start); a
\* ParseException ends the try block
ForCall ==
    /\ pc = "for_call"
    /\ LET o == Parse(self.p, query, s)
       IN  IF o.tag = "ok"
           THEN /\ r' = o.val /\ s' = o.pos /\ pc' = "for_append"
                /\ UNCHANGED res
           ELSE IF o.tag = "ParseException"
           THEN /\ pc' = "return" /\ UNCHANGED <<r, s, res>>
           ELSE /\ res' = o /\ pc' = "done" /\ UNCHANGED <<r, s>>
    /\ UNCHANGED <<op, self, query, start, aux, rs, i>>

\* rs.append(r) in the for loop, and the loop's next i
ForAppend ==
    /\ pc = "for_append"
    /\ rs' = IF Len(rs) < RsCap THEN Append(rs, r) ELSE rs
    /\ i' = IF i + 1 < self.stop - self.start THEN i + 1 ELSE i
    /\ pc' = IF i + 1 < self.stop - self.start THEN "for_call" ELSE "return"
    /\ UNCHANGED <<op, self, query, start, res, aux, s, r>>

\* r, s = self._p._parse(query, s) in while True; a ParseException ends the
\* try block
WhileCall ==
    /\ pc = "while_call"
    /\ LET o == Parse(self.p, query, s)
       IN  IF o.tag = "ok"
           THEN /\ r' = o.val /\ s' = o.pos /\ pc' = "while_append"
                /\ UNCHANGED res
           ELSE IF o.tag = "ParseException"
           THEN /\ pc' = "return" /\ UNCHANGED <<r, s, res>>
           ELSE /\ res' = o /\ pc' = "done" /\ UNCHANGED <<r, s>>
    /\ UNCHANGED <<op, self, query, start, aux, rs, i>>

\* rs.append(r) in while True, which has no exit of its own
WhileAppend ==
    /\ pc = "while_append"
    /\ rs' = IF Len(rs) < RsCap THEN Append(rs, r) ELSE rs
    /\ pc' = "while_call"
    /\ UNCHANGED <<op, self, query, start, res, aux, s, r, i>>

\* return rs, s
Return ==
    /\ pc = "return"
    /\ res' = Success(PyList(rs), s)
    /\ pc' = "done"
    /\ UNCHANGED <<op, self, query, start, aux, s, rs, r, i>>

RunNext ==
    \/ Enter
    \/ MinCall
    \/ MinAppend
    \/ ForCall
    \/ ForAppend
    \/ WhileCall
    \/ WhileAppend
    \/ Return

\* The interpreter runs one call on one thread: the statement the method is
\* at is executed.
RunSpec == RunInit /\ [][RunNext]_vars /\ WF_vars(RunNext)

---------------------------------------------------------------------------
(* What the claims are stated with *)

\* the least member of a non-empty set of numbers
Least(S) == CHOOSE k \in S : \A j \in S : k <= j

\* how many times in a row p matches from cursor c, counted up to limit
RECURSIVE Available(_, _, _, _)
Available(p, qy, c, limit) ==
    IF limit = 0 THEN 0
    ELSE LET o == Parse(p, qy, c)
         IN  IF o.tag = "ok" THEN 1 + Available(p, qy, o.pos, limit - 1) ELSE 0

\* the outcomes of k matches of p in a row from cursor c
RECURSIVE Matches(_, _, _, _)
Matches(p, qy, c, k) ==
    IF k = 0 THEN <<>>
    ELSE <<Parse(p, qy, c)>> \o Matches(p, qy, Parse(p, qy, c).pos, k - 1)

\* the cursor after the matches ms, which started at c
EndOf(ms, c) == IF Len(ms) = 0 THEN c ELSE ms[Len(ms)].pos

\* the outcomes of the parsers ps, each started where the one before ended,
\* up to and including the first that does not succeed
RECURSIVE Thread(_, _, _)
Thread(ps, qy, c) ==
    IF Len(ps) = 0 THEN <<>>
    ELSE LET o == Parse(ps[1], qy, c)
         IN  IF o.tag = "ok" THEN <<o>> \o Thread(Tail(ps), qy, o.pos) ELSE <<o>>

\* whether all of ps succeeded in ms
AllOk(ps, ms) == Len(ms) = Len(ps) /\ \A k \in 1..Len(ms) : ms[k].tag = "ok"

\* the values of the outcomes ms
Values(ms) == [k \in 1..Len(ms) |-> ms[k].val]

IsNotNone(v) == v.t # "none"

---------------------------------------------------------------------------
(* The claims *)

\* C1: parse(input) returns the root parser's value if and only if the root
\* succeeds from cursor 0 with its cursor at len(input); a root that succeeds
\* short of len(input) makes parse raise the ParseException that names the
\* unconsumed suffix input[cursor:], and no value is returned.
C1_ParseConsumesAll ==
    op = "parse" =>
        LET o == Parse(self, query, 0)
        IN  /\ (res.tag = "ok") <=> (o.tag = "ok" /\ o.pos = Len(query))
            /\ res.tag = "ok" => res = [tag |-> "ok", val |-> o.val]
            /\ (o.tag = "ok" /\ o.pos < Len(query)) =>
                  res = Raise([kind |-> "Remaining",
                               rest |-> SubSeq(query, o.pos + 1, Len(query))])

C1_Witness ==
    /\ op = "parse"
    /\ Parse(self, query, 0).tag = "ok"
    /\ Parse(self, query, 0).pos < Len(query)
    /\ res.tag = "ParseException"

\* C2: Repeat(p, m, n) with 0 <= m <= n fails whenever fewer than m matches of
\* p in a row are available from the cursor; when it succeeds its list has
\* between m and n entries, one per match and in order, it stopped before n
\* only because the next attempt of p did not succeed, and its cursor is the
\* one after the last successful match.
C2_RepeatBounds ==
    (op = "Repeat" /\ ~self.unbounded) =>
        LET k == Available(self.p, query, start, self.stop)
            ms == Matches(self.p, query, start, k)
        IN  /\ k < self.start => res.tag # "ok"
            /\ res.tag = "ok" =>
                  /\ Len(res.val.items) >= self.start
                  /\ Len(res.val.items) <= self.stop
                  /\ res.val.items = Values(ms)
                  /\ res.pos = EndOf(ms, start)
                  /\ Len(res.val.items) < self.stop =>
                        Parse(self.p, query, res.pos).tag # "ok"

C2_Witness ==
    /\ op = "Repeat" /\ ~self.unbounded
    /\ res.tag = "ok"
    /\ Len(res.val.items) = self.stop
    /\ self.stop = MaxRep
    /\ self.start < self.stop
    /\ Parse(self.p, query, res.pos).tag = "ok"
    /\ res.pos > start

\* C3: Union(ps) at cursor c returns exactly the (value, cursor) of the first
\* alternative, in listed order, that succeeds at c.
C3_FirstSuccessWins ==
    op = "Union" =>
        LET good == {k \in 1..Len(self.ps) : Parse(self.ps[k], query, start).tag = "ok"}
        IN  good # {} => res = Parse(self.ps[Least(good)], query, start)

\* C4: every way a node fails to match is a ParseException, the kind an
\* enclosing Union or Repeat catches: a Union whose alternatives all raise
\* ParseException at cursor c raises a ParseException at c, a Repeat whose
\* child raises ParseException before the minimum is met raises one, and a
\* Concat raises the ParseException of its first failing child.
C4_FailuresAreParseExceptions ==
    /\ (/\ op = "Union"
        /\ \A k \in 1..Len(self.ps) :
              Parse(self.ps[k], query, start).tag = "ParseException") =>
          /\ res.tag = "ParseException"
          /\ res.msg.index = start
    /\ (op = "Repeat" /\ ~self.unbounded) =>
          LET k == Available(self.p, query, start, self.start)
              c == EndOf(Matches(self.p, query, start, k), start)
          IN  (k < self.start /\ Parse(self.p, query, c).tag = "ParseException") =>
                  res.tag = "ParseException"
    /\ op = "Concat" =>
          LET ms == Thread(self.ps, query, start)
          IN  ms[Len(ms)].tag = "ParseException" => res = ms[Len(ms)]

\* C5: Optional(p) never fails: when p does not succeed at the cursor it
\* yields None with the cursor unchanged, otherwise p's value and p's cursor.
C5_OptionalNeverFails ==
    op = "Optional" =>
        LET o == Parse(aux.p, query, start)
        IN  /\ res.tag = "ok"
            /\ o.tag # "ok" => res = Success(PyNone, start)
            /\ o.tag = "ok" => res = Success(o.val, o.pos)

\* C6: for one or more token strings joined with the separator,
\* Joined(token, sep) returns the list of the tokens' values, in order, with
\* no separator values and no nesting, and leaves a trailing separator
\* unconsumed; an input whose first token does not match fails.
C6_JoinedRoundTrips ==
    op = "Joined" =>
        IF aux.junk THEN res.tag # "ok"
        ELSE res = Success(
                 PyList([k \in 1..Len(aux.words) |->
                            Parse(aux.token, aux.words[k], 0).val]),
                 Len(Join(aux.words, aux.st)))

\* C7: (a + b) + c and a + (b + c) give the same outcome on every input, and
\* so do (a | b) | c and a | (b | c); a labeled operand -(a + b) is not
\* merged: its own list is one entry of the enclosing list.
C7_Flattening ==
    /\ op = "Add" =>
          LET inner == Parse(Plus(aux.a, aux.b), query, start)
              labeled == Parse(Plus(Neg(Plus(aux.a, aux.b)), aux.c), query, start)
          IN  /\ res = Parse(Plus(aux.a, Plus(aux.b, aux.c)), query, start)
              /\ res.tag = "ok" =>
                    /\ inner.tag = "ok"
                    /\ labeled.tag = "ok"
                    /\ labeled.pos = res.pos
                    /\ labeled.val.items =
                          <<inner.val>> \o SubSeq(res.val.items,
                                                  Len(inner.val.items) + 1,
                                                  Len(res.val.items))
    /\ op = "Or" =>
          res = Parse(Bar(aux.a, Bar(aux.b, aux.c)), query, start)

C7_Witness ==
    /\ op = "Add"
    /\ res.tag = "ok"
    /\ Len(res.val.items) = 3
    /\ Parse(Plus(Neg(Plus(aux.a, aux.b)), aux.c), query, start).val.items[1].t = "list"

\* C8: In(left, core, right) succeeds exactly when left, then core, then right
\* match one after the other from the cursor, and its value is core's whole
\* value.
C8_InYieldsCore ==
    op = "In" =>
        LET ms == Thread(<<AsParser(aux.lsep), aux.ptoken, AsParser(aux.rsep)>>,
                         query, start)
        IN  /\ (res.tag = "ok") <=> AllOk(<<1, 2, 3>>, ms)
            /\ res.tag = "ok" => res = Success(ms[2].val, ms[3].pos)

\* C9: in the list of a Concat and of a Repeat a drop-wrapped child's match
\* contributes no entry and every match of a child that is not drop-wrapped
\* contributes exactly one, in match order: a Concat of k children that are
\* not drop-wrapped yields k entries, a Repeat over a dropped child none.
C9_DropSemantics ==
    /\ (op = "Concat" /\ res.tag = "ok") =>
          LET ms == Thread(self.ps, query, start)
              kept == {k \in 1..Len(self.ps) : self.ps[k].type # "Drop"}
          IN  /\ Len(res.val.items) = Cardinality(kept)
              /\ res.pos = EndOf(ms, start)
    /\ (op = "Repeat" /\ res.tag = "ok") =>
          LET n == Available(self.p, query, start,
                             IF self.unbounded THEN Len(query) + 1 ELSE self.stop)
          IN  Len(res.val.items) = IF self.p.type = "Drop" THEN 0 ELSE n

\* C9 as amended: a Concat keeps the value of a child's match exactly when it
\* is not None, so a drop-wrapped child never contributes and neither does
\* any other child whose value is None; a Repeat keeps the value of every
\* match, None included, one entry per match; both in match order, with the
\* cursor after the last match.
C9_NoneSemantics ==
    /\ (op = "Concat" /\ res.tag = "ok") =>
          LET ms == Thread(self.ps, query, start)
          IN  /\ res.val.items = SelectSeq(Values(ms), IsNotNone)
              /\ res.pos = EndOf(ms, start)
              /\ \A k \in 1..Len(self.ps) :
                    self.ps[k].type = "Drop" => ms[k].val = PyNone
    /\ (op = "Repeat" /\ res.tag = "ok") =>
          LET n == Available(self.p, query, start,
                             IF self.unbounded THEN Len(query) + 1 ELSE self.stop)
              ms == Matches(self.p, query, start, n)
          IN  /\ res.val.items = Values(ms)
              /\ res.pos = EndOf(ms, start)
              /\ self.p.type = "Drop" =>
                    \A k \in 1..n : res.val.items[k] = PyNone

C9_Witness ==
    /\ op = "Concat"
    /\ res.tag = "ok"
    /\ Len(self.ps) = 2
    /\ self.ps[1].type = "Drop"
    /\ self.ps[2].type # "Drop"
    /\ res.val.items = <<>>
    /\ res.pos > start

\* C10: evaluating a parser on an input ends with a value or a parse failure;
\* a Repeat with no maximum ends even when its child succeeds without moving
\* the cursor.
C10_Terminates == <>(pc = "done")

\* A run of Repeat._parse that ends, ends with what Parse gives, and a run
\* for which Parse gives Diverges never ends.
RunAgreesWithParse ==
    /\ pc = "done" => res = Parse(self, query, start)
    /\ (op = "run" /\ Parse(self, query, start) = Diverges) => pc # "done"

---------------------------------------------------------------------------
(* What the code keeps of the claims it breaks *)

\* The first success wins when every alternative before it raises
\* ParseException.
FirstSuccessWinsAmongRaising ==
    op = "Union" =>
        LET good == {k \in 1..Len(self.ps) : Parse(self.ps[k], query, start).tag = "ok"}
        IN  (/\ good # {}
             /\ \A j \in 1..(Least(good) - 1) :
                   Parse(self.ps[j], query, start).tag = "ParseException") =>
                res = Parse(self.ps[Least(good)], query, start)

\* Optional(p) yields None in place when p raises ParseException, and p's
\* value and cursor when p succeeds.
OptionalOfRaisingChild ==
    op = "Optional" =>
        LET o == Parse(aux.p, query, start)
        IN  /\ o.tag = "ParseException" => res = Success(PyNone, start)
            /\ o.tag = "ok" => res = Success(o.val, o.pos)

\* Joined round-trips when the separator is no Union and the token is no
\* Union tried at a trailing separator.
JoinedRoundTripsWithoutUnion ==
    (/\ op = "Joined"
     /\ aux.sep.type # "Union"
     /\ aux.token.type # "Union" \/ ~aux.tail) =>
        IF aux.junk THEN res.tag # "ok"
        ELSE res = Success(
                 PyList([k \in 1..Len(aux.words) |->
                            Parse(aux.token, aux.words[k], 0).val]),
                 Len(Join(aux.words, aux.st)))

\* In yields core's value when left and right are raw strings and core is
\* no Concat.
InOfRawDelimitersAndUnmergedCore ==
    (/\ op = "In"
     /\ aux.lsep.type = "str" /\ aux.rsep.type = "str"
     /\ aux.ptoken.type # "Concat") =>
        LET ms == Thread(<<AsParser(aux.lsep), aux.ptoken, AsParser(aux.rsep)>>,
                         query, start)
        IN  /\ (res.tag = "ok") <=> AllOk(<<1, 2, 3>>, ms)
            /\ res.tag = "ok" => res = Success(ms[2].val, ms[3].pos)

====
